---- MODULE Spec2Model ----
(***************************************************************************)
(* Model of the outreach dashboard's view components as a state machine.   *)
(*                                                                         *)
(* One step of the model is one run of the JavaScript event loop: a mount  *)
(* effect, a user event handler, or the continuation of an awaited request *)
(* (its response or its rejection).  A handler runs synchronously up to    *)
(* its next await, so a call that is not awaited (fetchCampaign() at the   *)
(* end of a handler) issues its request inside the caller's step.          *)
(*                                                                         *)
(* React state read inside an async function is the value captured by the  *)
(* closure of the render that created the function; a task therefore       *)
(* carries the values it captured (capInit, capEdits) and a nested call    *)
(* inherits them from its caller.                                          *)
(*                                                                         *)
(* The REST backend is outside the repository: it is modelled as a store   *)
(* that applies a request at the moment its response is delivered, and any *)
(* request may fail instead.                                               *)
(***************************************************************************)
EXTENDS Integers, Sequences, FiniteSets, Bags, TLC

\* ---------------------------------------------------------------- bounds
MaxTasks == 2
MaxClicks == 2
MaxRounds == 2

\* ------------------------------------------------------------- constants
Leads == {1, 2}
DefaultLeadLimit == 100

VARIABLES
  screen,            \* the component on screen
  route,             \* the router's location: path pattern and campaign id
  auth,              \* ProtectedRoute: isAuthenticated; localStorage: session_token
  cp,                \* CampaignsPage: campaigns, showCreate, newCampaign
  lp,                \* LeadPersonaPanel: its lead prop, editingPersona, personaText, regenerating
  bl,                \* BulkLeadEnrichment: enrichmentData, processing, and whether it is open
  st,                \* AIAgentStudio: config, usage, loading, editing
  mp,                \* MessagesPage: messages, selectedMessage, replyText, filter, sending
  v2,                \* CampaignBuilderV2 with its ReviewMessagesTab and ScheduleTab
  mounted,           \* its mount effect has run
  tasks,             \* async calls in flight, each awaiting one request
  ev,                \* what the last step did: completed request, toast, requests issued
  clicks,            \* request-issuing user actions so far
  be,                \* backend store of the campaign
  campaign,          \* CampaignBuilder: useState(null)
  loading,           \* CampaignBuilder: useState(true)
  activeTab,         \* CampaignBuilder: useState('agent')
  leads,             \* CampaignBuilder: useState([])
  initializingSteps, \* CampaignBuilder: useState(false)
  editingCampaign,   \* CampaignBuilder: useState(false)
  campaignEdits,     \* CampaignBuilder: useState({})
  uploading,         \* ProductInfoEditor: useState(false)
  selectedLeads,     \* LeadsAssigner: useState(campaign.lead_ids || [])
  leadLimit          \* LeadsAssigner: useState(100)

cbVars == <<campaign, loading, activeTab, leads, initializingSteps,
            editingCampaign, campaignEdits, uploading, selectedLeads, leadLimit>>

\* The state of the other components, which a Campaign Builder step leaves alone.
pageVars == <<route, auth, cp, lp, bl, st, mp, v2>>

frame == <<screen, pageVars>>

vars == <<screen, mounted, tasks, ev, clicks, be, cbVars, pageVars>>

\* ------------------------------------------------------- requests, events
NoBody ==
  [keys |-> {}, step_number |-> 0, lead_ids |-> {}, lead_limit |-> 0,
   name |-> "", file_urls |-> <<>>, parsed_content |-> "", status |-> "",
   text |-> ""]

Req(m, url, body) == [m |-> m, url |-> url, body |-> body]

NoReq == Req("", "", NoBody)

NoEdits == [name |-> "", file_urls |-> <<>>, parsed_content |-> ""]

Task(fn, pc, req, root) ==
  [fn |-> fn, pc |-> pc, req |-> req, root |-> root,
   capInit |-> FALSE, capEdits |-> NoEdits, n |-> 0, s |-> "", q |-> <<>>,
   live |-> TRUE]

Event(kind, fn, req, toast, issued) ==
  [kind |-> kind, fn |-> fn, req |-> req, toast |-> toast, issued |-> issued]

\* A user action that only changes local state: no request, no toast.
Input == Event("user", "input", NoReq, "none", <<>>)

\* The calls in flight form a bag: their order of creation decides nothing.
Spawn(ts, t) == ts (+) SetToBag({t})
Drop(ts, t) == ts (-) SetToBag({t})
Swap(ts, t, u) == Spawn(Drop(ts, t), u)

\* ---------------------------------------------------------------- backend
\* GET /campaigns/{id}: the campaign document as stored.
CampaignData(b) ==
  [loaded |-> TRUE, name |-> b.name, status |-> b.status,
   message_steps |-> IF b.lists_steps THEN b.steps ELSE <<>>,
   lead_ids |-> b.lead_ids,
   file_urls |-> b.file_urls, parsed_content |-> b.parsed_content,
   variant |-> b.variant]

NoCampaign ==
  [loaded |-> FALSE, name |-> "", status |-> "", message_steps |-> <<>>,
   lead_ids |-> {}, file_urls |-> <<>>, parsed_content |-> "", variant |-> ""]

\* The backend applies a successful request to its store.
Apply(b, r) ==
  IF r.m = "POST" /\ r.url = "/campaigns/:id/steps"
    THEN [b EXCEPT !.steps = Append(@, r.body.step_number)]
  ELSE IF r.m = "PATCH" /\ r.url = "/campaigns/:id"
    THEN [b EXCEPT
            !.name = IF "name" \in r.body.keys THEN r.body.name ELSE @,
            !.file_urls = IF "product_info" \in r.body.keys THEN r.body.file_urls ELSE @,
            !.parsed_content = IF "product_info" \in r.body.keys THEN r.body.parsed_content ELSE @,
            !.lead_ids = IF "lead_ids" \in r.body.keys THEN r.body.lead_ids ELSE @,
            !.status = IF "status" \in r.body.keys THEN r.body.status ELSE @]
  ELSE b

\* ------------------------------------------------ CampaignBuilder requests
GetCampaign == Req("GET", "/campaigns/:id", NoBody)
PostStep(k) ==
  Req("POST", "/campaigns/:id/steps",
      [NoBody EXCEPT !.keys = {"step_number", "channel", "delay_days", "variants"},
                     !.step_number = k])

\* defaultSteps: step_number 1, 2, 3
DefaultSteps == <<1, 2, 3>>

\* fetchCampaign(), called from a closure that captured initializingSteps = cap
FetchCampaignTask(cap, root) ==
  [Task("fetchCampaign", "get", GetCampaign, root) EXCEPT !.capInit = cap]

\* fetchCampaign: the guard of the auto-initialisation, read from the closure.
NeedsDefaultSteps(campaignData, initializing) ==
  Len(campaignData.message_steps) = 0 /\ ~initializing

\* initializeDefaultSteps: `if (initializingSteps) return;`
InitEarlyReturn(initializing) == initializing

\* ------------------------------------------------------------------- Init
Screens ==
  {"CampaignBuilder", "CampaignsPage", "LeadPersonaPanel", "BulkLeadEnrichment",
   "AIAgentStudio", "MessagesPage", "CampaignBuilderV2"}

\* <Route path=... element=...>: the page a path renders
RoutePath(page) ==
  IF page = "CampaignsPage" THEN "/campaigns"
  ELSE IF page = "CampaignBuilder" THEN "/campaigns/:campaignId/edit"
  ELSE ""

RouteElement(path) ==
  IF path = "/campaigns" THEN "CampaignsPage"
  ELSE IF path = "/campaigns/:campaignId/edit" THEN "CampaignBuilder"
  ELSE "LandingPage"

\* CampaignBuilderV2 before its first fetch, and the message list of a
\* campaign: none, or one generated message with its content.
\* selected_lead_ids is an array of lead ids, or absent from the campaign.
NoCampaignV2 ==
  [loaded |-> FALSE, status |-> "", test_approved |-> FALSE, start_date |-> "",
   selected_lead_ids |-> [defined |-> FALSE, ids |-> {}]]
NoMessages == [some |-> FALSE, content |-> ""]
TestMessages == [some |-> TRUE, content |-> "m0"]
CampaignsV2 ==
  {[status |-> "draft", test_approved |-> FALSE, messages |-> NoMessages],
   [status |-> "test_phase", test_approved |-> FALSE, messages |-> TestMessages],
   [status |-> "test_phase", test_approved |-> TRUE, messages |-> TestMessages]}

CampaignsPageInit ==
  [campaigns |-> {}, showCreate |-> FALSE,
   newCampaign |-> [name |-> "", goal_type |-> "email", target_persona |-> ""]]

\* The state after construction. lists tells whether the backend's GET of a
\* campaign includes the steps that were POSTed to it (message_steps).
InitWith(lists) ==
  /\ screen \in Screens
  /\ route = [path |-> RoutePath(screen), id |-> IF screen = "CampaignBuilder" THEN 1 ELSE 0]
  /\ \E token \in BOOLEAN :
       /\ screen # "CampaignsPage" => token
       /\ auth = [isAuthenticated |-> IF screen = "CampaignsPage" THEN "null" ELSE "true",
                  session_token |-> token, checking |-> FALSE]
  /\ cp = CampaignsPageInit
  /\ \E url \in BOOLEAN :
       /\ screen # "LeadPersonaPanel" => url
       /\ lp = [lead |-> [name |-> "Ann", linkedin_url |-> url, persona |-> "p0"],
                editingPersona |-> FALSE, personaText |-> "p0", regenerating |-> FALSE]
  /\ bl = [enrichmentData |-> <<>>, processing |-> FALSE, open |-> TRUE]
  /\ st = [config |-> [loaded |-> FALSE, model_name |-> ""], usage |-> FALSE,
           loading |-> TRUE, editing |-> FALSE]
  /\ mp = [messages |-> {}, selectedMessage |-> 0, replyText |-> "",
           filter |-> "all", sending |-> FALSE]
  /\ v2 = [campaign |-> NoCampaignV2, loading |-> TRUE, activeTab |-> "overview",
           messages |-> NoMessages, generating |-> FALSE,
           editingMessage |-> NoMessages, start_date |-> ""]
  /\ mounted = FALSE
  /\ tasks = EmptyBag
  /\ ev = Event("none", "", NoReq, "none", <<>>)
  /\ clicks = 0
  /\ \E s0 \in {<<>>, DefaultSteps} :
       /\ screen # "CampaignBuilder" => s0 = DefaultSteps
       /\ ~lists => s0 = <<>>
       /\ \E c \in CampaignsV2 :
            /\ screen # "CampaignBuilderV2" => c.status = "draft"
            /\ be = [id |-> 1, name |-> "Q1", status |-> c.status, steps |-> s0,
                     lead_ids |-> {}, file_urls |-> <<>>, parsed_content |-> "",
                     test_approved |-> c.test_approved, messages |-> c.messages,
                     start_date |-> "", variant |-> "c0",
                     selected_lead_ids |-> [defined |-> TRUE, ids |-> {}],
                     lists_steps |-> lists]
  /\ campaign = NoCampaign
  /\ loading = TRUE
  /\ activeTab = "agent"
  /\ leads = {}
  /\ initializingSteps = FALSE
  /\ editingCampaign = FALSE
  /\ campaignEdits = NoEdits
  /\ uploading = FALSE
  /\ selectedLeads = {}
  /\ leadLimit = DefaultLeadLimit

Init == InitWith(TRUE)

\* ------------------------------------------- CampaignBuilder: mount, loads
\* useEffect(() => { fetchCampaign(); fetchLeads(); }, [campaignId])
CBMount ==
  /\ screen = "CampaignBuilder" /\ ~mounted
  /\ mounted' = TRUE
  /\ tasks' = Spawn(Spawn(tasks, FetchCampaignTask(initializingSteps, "mount")),
                      Task("fetchLeads", "get", Req("GET", "/leads", NoBody), "mount"))
  /\ ev' = Event("mount", "CampaignBuilder", NoReq, "none", <<GetCampaign,
                   Req("GET", "/leads", NoBody)>>)
  /\ UNCHANGED <<frame, clicks, be, cbVars>>

\* fetchCampaign, after `await api.get`: store the campaign, reset the edits,
\* and start initializeDefaultSteps when the captured flag allows it.
FetchCampaignAnswered(t) ==
  \/ LET campaignData == CampaignData(be)
         init == /\ NeedsDefaultSteps(campaignData, t.capInit)
                 /\ ~InitEarlyReturn(t.capInit)
     IN /\ t.fn = "fetchCampaign" /\ t.pc = "get"
        /\ init => Len(be.steps) < MaxRounds * Len(DefaultSteps)
        /\ campaign' = campaignData
        /\ campaignEdits' = [name |-> campaignData.name,
                             file_urls |-> campaignData.file_urls,
                             parsed_content |-> campaignData.parsed_content]
        /\ IF init
             THEN /\ initializingSteps' = TRUE
                  /\ tasks' = Swap(tasks, t, [t EXCEPT !.pc = "post", !.n = 1,
                                                    !.req = PostStep(DefaultSteps[1])])
                  /\ ev' = Event("ok", t.fn, t.req, "none", <<PostStep(DefaultSteps[1])>>)
                  /\ UNCHANGED loading
             ELSE /\ loading' = FALSE
                  /\ tasks' = Drop(tasks, t)
                  /\ ev' = Event("ok", t.fn, t.req, "none", <<>>)
                  /\ UNCHANGED initializingSteps
        /\ UNCHANGED <<frame, mounted, clicks, be, activeTab, leads,
                       editingCampaign, uploading, selectedLeads, leadLimit>>
  \* fetchCampaign, catch: toast, then setLoading(false)
  \/ /\ t.fn = "fetchCampaign" /\ t.pc = "get"
     /\ loading' = FALSE
     /\ tasks' = Drop(tasks, t)
     /\ ev' = Event("fail", t.fn, t.req, "Failed to load campaign", <<>>)
     /\ UNCHANGED <<frame, mounted, clicks, be, campaign, activeTab, leads,
                    initializingSteps, editingCampaign, campaignEdits,
                    uploading, selectedLeads, leadLimit>>

\* initializeDefaultSteps, after `await api.post` of step n: POST the next
\* step, or after the last one toast, call fetchCampaign() without awaiting
\* it, clear the flag; the awaiting fetchCampaign then does setLoading(false).
InitStepOk(t) ==
  LET more == t.n < Len(DefaultSteps)
      next == PostStep(DefaultSteps[t.n + 1])
  IN /\ t.fn = "fetchCampaign" /\ t.pc = "post"
     /\ be' = Apply(be, t.req)
     /\ IF more
          THEN /\ tasks' = Swap(tasks, t, [t EXCEPT !.n = t.n + 1, !.req = next])
               /\ ev' = Event("ok", "initializeDefaultSteps", t.req, "none", <<next>>)
               /\ UNCHANGED <<initializingSteps, loading>>
          ELSE /\ tasks' = Swap(tasks, t, FetchCampaignTask(t.capInit, t.root))
               /\ ev' = Event("ok", "initializeDefaultSteps", t.req,
                              "3-step sequence initialized!", <<GetCampaign>>)
               /\ initializingSteps' = FALSE
               /\ loading' = FALSE
     /\ UNCHANGED <<frame, mounted, clicks, campaign, activeTab, leads,
                    editingCampaign, campaignEdits, uploading, selectedLeads, leadLimit>>

\* A catch block that posts the failed step again.
InitStepFailRetrying(t) ==
     /\ t.fn = "fetchCampaign" /\ t.pc = "post"
     /\ ev' = Event("fail", "initializeDefaultSteps", t.req,
                    "Failed to initialize sequence", <<t.req>>)
     /\ UNCHANGED <<frame, mounted, tasks, clicks, be, cbVars>>

\* initializeDefaultSteps, catch: toast, clear the flag; no further POST.
InitStepFail(t) ==
     /\ t.fn = "fetchCampaign" /\ t.pc = "post"
     /\ tasks' = Drop(tasks, t)
     /\ ev' = Event("fail", "initializeDefaultSteps", t.req,
                    "Failed to initialize sequence", <<>>)
     /\ initializingSteps' = FALSE
     /\ loading' = FALSE
     /\ UNCHANGED <<frame, mounted, clicks, be, campaign, activeTab, leads,
                    editingCampaign, campaignEdits, uploading, selectedLeads, leadLimit>>

\* fetchLeads: setLeads(response.data)
FetchLeadsAnswered(t) ==
  \/ /\ t.fn = "fetchLeads"
     /\ leads' = Leads
     /\ tasks' = Drop(tasks, t)
     /\ ev' = Event("ok", t.fn, t.req, "none", <<>>)
     /\ UNCHANGED <<frame, mounted, clicks, be, campaign, loading, activeTab,
                    initializingSteps, editingCampaign, campaignEdits,
                    uploading, selectedLeads, leadLimit>>
  \* fetchLeads, catch: console.error only
  \/ /\ t.fn = "fetchLeads"
     /\ tasks' = Drop(tasks, t)
     /\ ev' = Event("fail", t.fn, t.req, "none", <<>>)
     /\ UNCHANGED <<frame, mounted, clicks, be, cbVars>>

\* ------------------------------------------- CampaignBuilder: user actions
\* The builder is rendered once loading is false and a campaign is set.
CBRendered == screen = "CampaignBuilder" /\ mounted /\ ~loading /\ campaign.loaded

\* A user action that issues k requests.
CanClick(k) == clicks < MaxClicks /\ BagCardinality(tasks) + k <= MaxTasks

\* The buttons of the builder-tabs bar.
BuilderTabs == {"product", "steps", "schedule", "leads", "analytics"}

\* Tasks of a ProductInfoEditor that was unmounted: its setUploading is a no-op.
Unmounted(t) == IF t.fn = "handleFileUpload" THEN [t EXCEPT !.live = FALSE] ELSE t

\* onClick={() => setActiveTab(t)}; the tab's component is mounted with its
\* initial state and the previous tab's component is unmounted.
SetActiveTab(t) ==
  /\ CBRendered /\ t \in BuilderTabs
  /\ activeTab' = t
  /\ IF t = activeTab
       THEN UNCHANGED <<selectedLeads, leadLimit, uploading, tasks>>
       ELSE /\ selectedLeads' = IF t = "leads" THEN campaign.lead_ids ELSE {}
            /\ leadLimit' = DefaultLeadLimit
            /\ uploading' = FALSE
            /\ tasks' = IF activeTab = "product" THEN BagOfAll(Unmounted, tasks) ELSE tasks
  /\ ev' = Input
  /\ UNCHANGED <<frame, mounted, clicks, be, campaign, loading, leads,
                 initializingSteps, editingCampaign, campaignEdits>>

\* A handler that ends after its toast.
ThenNothing(t, toast) ==
     /\ be' = Apply(be, t.req)
     /\ tasks' = Drop(tasks, t)
     /\ ev' = Event("ok", t.fn, t.req, toast, <<>>)

\* A handler's request succeeded and the handler ends with fetchCampaign().
ThenRefetch(t, toast) ==
     /\ be' = Apply(be, t.req)
     /\ tasks' = Swap(tasks, t, FetchCampaignTask(t.capInit, t.root))
     /\ ev' = Event("ok", t.fn, t.req, toast, <<GetCampaign>>)

\* A handler's request failed and its catch block shows a toast.
CatchToast(t, toast) ==
     /\ tasks' = Drop(tasks, t)
     /\ ev' = Event("fail", t.fn, t.req, toast, <<>>)
     /\ UNCHANGED be

\* A user handler that issues one request and awaits it.
Click(fn, r) ==
  /\ CanClick(1)
  /\ clicks' = clicks + 1
  /\ tasks' = Spawn(tasks, [Task(fn, "await", r, "user") EXCEPT
                               !.capInit = initializingSteps])
  /\ ev' = Event("user", fn, NoReq, "none", <<r>>)

ActivateCampaign ==
  /\ CBRendered /\ campaign.status = "draft"
  /\ Click("activateCampaign", Req("POST", "/campaigns/:id/activate", NoBody))
  /\ UNCHANGED <<frame, mounted, be, cbVars>>

ActivateCampaignAnswered(t) ==
  \/ /\ t.fn = "activateCampaign"
     /\ \E success \in BOOLEAN :
          IF success
            THEN /\ be' = [be EXCEPT !.status = "active"]
                 /\ tasks' = Swap(tasks, t, FetchCampaignTask(t.capInit, t.root))
                 /\ ev' = Event("ok", t.fn, t.req, "Campaign activated!", <<GetCampaign>>)
            ELSE /\ tasks' = Drop(tasks, t)
                 /\ ev' = Event("ok", t.fn, t.req, "Cannot activate", <<>>)
                 /\ UNCHANGED be
     /\ UNCHANGED <<frame, mounted, clicks, cbVars>>
  \* catch
  \/ /\ t.fn = "activateCampaign"
     /\ CatchToast(t, "Failed to activate campaign")
     /\ UNCHANGED <<frame, mounted, clicks, cbVars>>

Pause ==
  /\ CBRendered /\ campaign.status = "active"
  /\ Click("pause", Req("PATCH", "/campaigns/:id",
                        [NoBody EXCEPT !.keys = {"status"}, !.status = "paused"]))
  /\ UNCHANGED <<frame, mounted, be, cbVars>>

PauseAnswered(t) ==
  \/ /\ t.fn = "pause"
     /\ ThenRefetch(t, "none")
     /\ UNCHANGED <<frame, mounted, clicks, cbVars>>
  \* The rejected promise has no handler.
  \/ /\ t.fn = "pause"
     /\ CatchToast(t, "none")
     /\ UNCHANGED <<frame, mounted, clicks, cbVars>>

SelectProfile ==
  /\ CBRendered /\ activeTab = "agent"
  /\ CanClick(2)
  /\ clicks' = clicks + 1
  /\ LET patch == Req("PATCH", "/campaigns/:id",
                      [NoBody EXCEPT !.keys = {"agent_profile_id"}])
     IN /\ tasks' = Spawn(Spawn(tasks, Task("onSelectProfile", "ignored", patch, "user")),
                          FetchCampaignTask(initializingSteps, "user"))
        /\ ev' = Event("user", "onSelectProfile", NoReq, "Agent profile linked!",
                       <<patch, GetCampaign>>)
  /\ UNCHANGED <<frame, mounted, be, cbVars>>

SelectProfileAnswered(t) ==
  \/ /\ t.fn = "onSelectProfile"
     /\ be' = Apply(be, t.req)
     /\ tasks' = Drop(tasks, t)
     /\ ev' = Event("ok", t.fn, t.req, "none", <<>>)
     /\ UNCHANGED <<frame, mounted, clicks, cbVars>>
  \* catch
  \/ /\ t.fn = "onSelectProfile"
     /\ CatchToast(t, "none")
     /\ UNCHANGED <<frame, mounted, clicks, cbVars>>

\* ------------------------------------------------------ ProductInfoEditor
\* file.name.match(/\.(pdf|docx|txt)$/i)
Supported(file) == file \in {"a.pdf", "a.docx", "a.txt"}

\* response.data.preview of the upload endpoint
Preview == "preview"

\* updateProductInfo(field, value), evaluated in a closure that holds edits:
\* setCampaignEdits({...campaignEdits, product_info: {...productInfo, [field]: value}})
updateProductInfo(edits, field, value) ==
  IF field = "file_urls" THEN [edits EXCEPT !.file_urls = value]
  ELSE IF field = "parsed_content" THEN [edits EXCEPT !.parsed_content = value]
  ELSE edits

\* Several setState(value) calls in one handler run: the last value is rendered.
Batched(values) == values[Len(values)]

\* onClick={() => setEditingCampaign(!editingCampaign)}
ToggleEditing ==
  /\ CBRendered /\ activeTab = "product"
  /\ editingCampaign' = ~editingCampaign
  /\ ev' = Input
  /\ UNCHANGED <<frame, mounted, tasks, clicks, be, campaign, loading, activeTab,
                 leads, initializingSteps, campaignEdits, uploading,
                 selectedLeads, leadLimit>>

\* Campaign Name input: setCampaignEdits({ ...campaignEdits, name: value })
EditName(value) ==
  /\ CBRendered /\ activeTab = "product" /\ editingCampaign
  /\ campaignEdits' = [campaignEdits EXCEPT !.name = value]
  /\ ev' = Input
  /\ UNCHANGED <<frame, mounted, tasks, clicks, be, campaign, loading, activeTab,
                 leads, initializingSteps, editingCampaign, uploading,
                 selectedLeads, leadLimit>>

\* handleFileUpload up to `await api.post`
HandleFileUpload(file) ==
  /\ CBRendered /\ activeTab = "product" /\ ~uploading
  /\ IF Supported(file)
       THEN /\ CanClick(1)
            /\ clicks' = clicks + 1
            /\ uploading' = TRUE
            /\ LET post == Req("POST", "/campaigns/:id/upload-product-doc", NoBody)
               IN /\ tasks' = Spawn(tasks,
                       [Task("handleFileUpload", "await", post, "user") EXCEPT
                          !.capInit = initializingSteps,
                          !.capEdits = campaignEdits, !.s = file])
                  /\ ev' = Event("user", "handleFileUpload", NoReq, "none", <<post>>)
       ELSE /\ ev' = Event("user", "handleFileUpload", NoReq,
                           "Only PDF, DOCX, and TXT files supported", <<>>)
            /\ UNCHANGED <<clicks, uploading, tasks>>
  /\ UNCHANGED <<frame, mounted, be, campaign, loading, activeTab, leads,
                 initializingSteps, editingCampaign, campaignEdits,
                 selectedLeads, leadLimit>>

\* handleFileUpload after the upload succeeded: two updateProductInfo calls,
\* both evaluated in the closure of the render that started the upload.
HandleFileUploadAnswered(t) ==
  \/ LET productInfo == t.capEdits
     IN /\ t.fn = "handleFileUpload"
        /\ campaignEdits' = Batched(<<
             updateProductInfo(t.capEdits, "file_urls", Append(productInfo.file_urls, t.s)),
             updateProductInfo(t.capEdits, "parsed_content", Preview)>>)
        /\ uploading' = IF t.live THEN FALSE ELSE uploading
        /\ tasks' = Drop(tasks, t)
        /\ ev' = Event("ok", t.fn, t.req, "Document uploaded and parsed!", <<>>)
        /\ UNCHANGED <<frame, mounted, clicks, be, campaign, loading, activeTab,
                       leads, initializingSteps, editingCampaign, selectedLeads, leadLimit>>
  \* catch
  \/ /\ t.fn = "handleFileUpload"
     /\ CatchToast(t, "Upload failed")
     /\ uploading' = IF t.live THEN FALSE ELSE uploading
     /\ UNCHANGED <<frame, mounted, clicks, campaign, loading, activeTab, leads,
                    initializingSteps, editingCampaign, campaignEdits,
                    selectedLeads, leadLimit>>

SaveCampaignEdits ==
  /\ CBRendered /\ activeTab = "product" /\ editingCampaign
  /\ Click("saveCampaignEdits",
           Req("PATCH", "/campaigns/:id",
               [NoBody EXCEPT !.keys = {"name", "product_info"},
                              !.name = campaignEdits.name,
                              !.file_urls = campaignEdits.file_urls,
                              !.parsed_content = campaignEdits.parsed_content]))
  /\ UNCHANGED <<frame, mounted, be, cbVars>>

SaveCampaignEditsAnswered(t) ==
  \/ /\ t.fn = "saveCampaignEdits"
     /\ ThenRefetch(t, "Campaign updated!")
     /\ editingCampaign' = FALSE
     /\ UNCHANGED <<frame, mounted, clicks, campaign, loading, activeTab, leads,
                    initializingSteps, campaignEdits, uploading, selectedLeads, leadLimit>>
  \* catch
  \/ /\ t.fn = "saveCampaignEdits"
     /\ CatchToast(t, "Failed to update campaign")
     /\ UNCHANGED <<frame, mounted, clicks, cbVars>>

\* ------------------------------------------------------------ StepsBuilder
\* campaign.variant stands for message_steps[0].variants[0].content, the text
\* of one variant as the backend returned it or as edited since.
\* addStep: POST a step numbered after the steps held locally, then re-fetch;
\* the button is rendered while there are fewer than 5 steps
AddStep ==
  /\ CBRendered /\ activeTab = "steps" /\ Len(campaign.message_steps) < 5
  /\ Click("addStep", PostStep(Len(campaign.message_steps) + 1))
  /\ UNCHANGED <<frame, mounted, be, cbVars>>

AddStepAnswered(t) ==
  \/ /\ t.fn = "addStep"
     /\ ThenRefetch(t, "Step added!")
     /\ UNCHANGED <<frame, mounted, clicks, cbVars>>
  \* catch
  \/ /\ t.fn = "addStep"
     /\ CatchToast(t, "Failed to add step")
     /\ UNCHANGED <<frame, mounted, clicks, cbVars>>

\* updateVariant(stepIndex, variantIndex, field, value): a copy of campaign
\* with the field of the variant set, stored with setCampaign
UpdateVariant(value) ==
  /\ CBRendered /\ activeTab = "steps" /\ campaign.message_steps # <<>>
  /\ campaign' = [campaign EXCEPT !.variant = value]
  /\ ev' = Input
  /\ UNCHANGED <<frame, mounted, tasks, clicks, be, loading, activeTab, leads,
                 initializingSteps, editingCampaign, campaignEdits, uploading,
                 selectedLeads, leadLimit>>

\* saveStep(stepIndex): toast.success('Step saved!') and nothing else
SaveStep ==
  /\ CBRendered /\ activeTab = "steps" /\ campaign.message_steps # <<>>
  /\ ev' = Event("user", "saveStep", NoReq, "Step saved!", <<>>)
  /\ UNCHANGED <<frame, mounted, tasks, clicks, be, cbVars>>

\* ----------------------------------------------------------- LeadsAssigner
\* parseInt of the text of a number input
parseInt(text) ==
  IF text = "1" THEN [nan |-> FALSE, v |-> 1]
  ELSE IF text = "0" THEN [nan |-> FALSE, v |-> 0]
  ELSE [nan |-> TRUE, v |-> 0]

\* `x || d` for a number x: NaN and 0 are falsy
OrElse(x, d) == IF x.nan \/ x.v = 0 THEN d ELSE x.v

\* toggleLead: prev.includes(id) ? prev.filter(...) : [...prev, id]
toggleLead(prev, leadId) ==
  IF leadId \in prev THEN prev \ {leadId} ELSE prev \cup {leadId}

ToggleLead(leadId) ==
  /\ CBRendered /\ activeTab = "leads" /\ leadId \in leads
  /\ selectedLeads' = toggleLead(selectedLeads, leadId)
  /\ ev' = Input
  /\ UNCHANGED <<frame, mounted, tasks, clicks, be, campaign, loading, activeTab,
                 leads, initializingSteps, editingCampaign, campaignEdits,
                 uploading, leadLimit>>

\* Lead Limit input: setLeadLimit(parseInt(e.target.value) || 100)
SetLeadLimit(text) ==
  /\ CBRendered /\ activeTab = "leads"
  /\ leadLimit' = OrElse(parseInt(text), 100)
  /\ ev' = Input
  /\ UNCHANGED <<frame, mounted, tasks, clicks, be, campaign, loading, activeTab,
                 leads, initializingSteps, editingCampaign, campaignEdits,
                 uploading, selectedLeads>>

\* assignLeads = async (selectedLeadIds) => api.patch(..., { lead_ids: selectedLeadIds })
\* args are the arguments of the call; the function declares one parameter.
assignLeads(args) ==
  LET selectedLeadIds == args[1]
  IN Req("PATCH", "/campaigns/:id",
         [NoBody EXCEPT !.keys = {"lead_ids"}, !.lead_ids = selectedLeadIds])

\* handleAssign: onAssignLeads(selectedLeads, leadLimit)
HandleAssign ==
  /\ CBRendered /\ activeTab = "leads"
  /\ Click("assignLeads", assignLeads(<<selectedLeads, leadLimit>>))
  /\ UNCHANGED <<frame, mounted, be, cbVars>>

AssignLeadsAnswered(t) ==
  \/ /\ t.fn = "assignLeads"
     /\ ThenRefetch(t, "leads assigned!")
     /\ UNCHANGED <<frame, mounted, clicks, cbVars>>
  \* catch
  \/ /\ t.fn = "assignLeads"
     /\ CatchToast(t, "Failed to assign leads")
     /\ UNCHANGED <<frame, mounted, clicks, cbVars>>

\* ---------------------------------------------------------- ProtectedRoute
\* <Navigate to="/" replace /> once isAuthenticated is false
Landing == [path |-> "/", id |-> 0]

\* checkAuth up to `await api.get('/auth/me')`: no stored token, no request.
CheckAuth ==
  /\ screen = "CampaignsPage" /\ auth.isAuthenticated = "null" /\ ~auth.checking
  /\ IF ~auth.session_token
       THEN /\ auth' = [auth EXCEPT !.isAuthenticated = "false"]
            /\ route' = Landing
            /\ screen' = RouteElement(Landing.path)
            /\ ev' = Event("mount", "checkAuth", NoReq, "none", <<>>)
            /\ UNCHANGED tasks
       ELSE /\ auth' = [auth EXCEPT !.checking = TRUE]
            /\ tasks' = Spawn(tasks, Task("checkAuth", "await",
                                           Req("GET", "/auth/me", NoBody), "mount"))
            /\ ev' = Event("mount", "checkAuth", NoReq, "none", <<Req("GET", "/auth/me", NoBody)>>)
            /\ UNCHANGED <<route, screen>>
  /\ UNCHANGED <<mounted, clicks, be, cbVars, cp, lp, bl, st, mp, v2>>

CheckAuthAnswered(t) ==
  \/ /\ t.fn = "checkAuth"
     /\ auth' = [auth EXCEPT !.isAuthenticated = "true", !.checking = FALSE]
     /\ tasks' = Drop(tasks, t)
     /\ ev' = Event("ok", t.fn, t.req, "none", <<>>)
     /\ UNCHANGED <<screen, route, mounted, clicks, be, cbVars, cp, lp, bl, st, mp, v2>>
  \* catch: the stored session is removed and the route redirects to "/".
  \/ /\ t.fn = "checkAuth"
     /\ auth' = [isAuthenticated |-> "false", session_token |-> FALSE, checking |-> FALSE]
     /\ route' = Landing
     /\ screen' = RouteElement(Landing.path)
     /\ tasks' = Drop(tasks, t)
     /\ ev' = Event("fail", t.fn, t.req, "none", <<>>)
     /\ UNCHANGED <<mounted, clicks, be, cbVars, cp, lp, bl, st, mp, v2>>

\* ----------------------------------------------------------- CampaignsPage
\* useEffect(() => { fetchCampaigns(); }, []) of the page inside ProtectedRoute
CPMount ==
  /\ screen = "CampaignsPage" /\ auth.isAuthenticated = "true" /\ ~mounted
  /\ mounted' = TRUE
  /\ tasks' = Spawn(tasks, Task("fetchCampaigns", "await",
                                Req("GET", "/campaigns", NoBody), "mount"))
  /\ ev' = Event("mount", "CampaignsPage", NoReq, "none", <<Req("GET", "/campaigns", NoBody)>>)
  /\ UNCHANGED <<frame, clicks, be, cbVars>>

CPRendered == screen = "CampaignsPage" /\ mounted

\* setCampaigns(response.data); a page that was left ignores the update.
FetchCampaignsAnswered(t) ==
  \/ /\ t.fn = "fetchCampaigns"
     /\ cp' = IF screen = "CampaignsPage" THEN [cp EXCEPT !.campaigns = 1..be.id] ELSE cp
     /\ tasks' = Drop(tasks, t)
     /\ ev' = Event("ok", t.fn, t.req, "none", <<>>)
     /\ UNCHANGED <<screen, route, auth, mounted, clicks, be, cbVars, lp, bl, st, mp, v2>>
  \* catch
  \/ /\ t.fn = "fetchCampaigns"
     /\ CatchToast(t, "Failed to load campaigns")
     /\ UNCHANGED <<frame, mounted, clicks, cbVars>>

\* "+ New Campaign" and the form's Cancel button
SetShowCreate(show) ==
  /\ CPRendered
  /\ cp' = [cp EXCEPT !.showCreate = show]
  /\ ev' = Input
  /\ UNCHANGED <<screen, route, auth, mounted, tasks, clicks, be, cbVars, lp, bl, st, mp, v2>>

\* Campaign Name input of the create form
TypeCampaignName(value) ==
  /\ CPRendered /\ cp.showCreate
  /\ cp' = [cp EXCEPT !.newCampaign.name = value]
  /\ ev' = Input
  /\ UNCHANGED <<screen, route, auth, mounted, tasks, clicks, be, cbVars, lp, bl, st, mp, v2>>

\* handleCreate up to `await api.post('/campaigns', newCampaign)`
HandleCreate ==
  /\ CPRendered /\ cp.showCreate
  /\ IF cp.newCampaign.name = ""
       THEN /\ ev' = Event("user", "handleCreate", NoReq, "Campaign name is required", <<>>)
            /\ UNCHANGED <<tasks, clicks>>
       ELSE Click("handleCreate",
                  Req("POST", "/campaigns",
                      [NoBody EXCEPT !.keys = {"name", "goal_type", "target_persona"},
                                     !.name = cp.newCampaign.name]))
  /\ UNCHANGED <<frame, mounted, be, cbVars>>

\* The backend stores the new campaign under a fresh id.
Created(b, r) ==
  [b EXCEPT !.id = b.id + 1, !.name = r.body.name, !.status = "draft",
            !.steps = <<>>, !.lead_ids = {}, !.file_urls = <<>>,
            !.parsed_content = ""]

\* A navigation that stays on the campaign list.
ListRoute(id) == [path |-> "/campaigns", id |-> 0]

\* navigate(`/campaigns/${response.data.id}/edit`)
EditRoute(id) == [path |-> "/campaigns/:campaignId/edit", id |-> id]

\* handleCreate after the POST succeeded: toast, close and reset the form,
\* navigate to the builder of the created campaign, whose mount effect runs.
HandleCreateAnswered(t) ==
  \/ /\ t.fn = "handleCreate"
     /\ be' = Created(be, t.req)
     /\ cp' = CampaignsPageInit
     /\ route' = EditRoute(be'.id)
     /\ screen' = RouteElement(route'.path)
     /\ mounted' = FALSE
     /\ tasks' = Drop(tasks, t)
     /\ ev' = Event("ok", t.fn, t.req, "Campaign created!", <<>>)
     /\ UNCHANGED <<auth, clicks, cbVars, lp, bl, st, mp, v2>>
  \* catch
  \/ /\ t.fn = "handleCreate"
     /\ CatchToast(t, "Failed to create campaign")
     /\ UNCHANGED <<frame, mounted, clicks, cbVars>>

NextCampaignsPage ==
  \/ CheckAuth \/ CPMount
  \/ \E show \in BOOLEAN : SetShowCreate(show)
  \/ \E value \in {"", "Q2"} : TypeCampaignName(value)
  \/ HandleCreate
  \/ \E t \in BagToSet(tasks) :
       \/ CheckAuthAnswered(t)
       \/ FetchCampaignsAnswered(t)
       \/ HandleCreateAnswered(t)

\* -------------------------------------------------------- LeadPersonaPanel
\* A step of another page leaves the Campaign Builder and the router alone.
rest == <<screen, route, auth, mounted, be, cbVars>>

LPRendered == screen = "LeadPersonaPanel"

\* "Edit Persona": setEditingPersona(true)
EditPersona ==
  /\ LPRendered /\ ~lp.editingPersona
  /\ lp' = [lp EXCEPT !.editingPersona = TRUE]
  /\ ev' = Input
  /\ UNCHANGED <<rest, tasks, clicks, cp, bl, st, mp, v2>>

\* textarea: setPersonaText(e.target.value)
TypePersona(text) ==
  /\ LPRendered /\ lp.editingPersona
  /\ lp' = [lp EXCEPT !.personaText = text]
  /\ ev' = Input
  /\ UNCHANGED <<rest, tasks, clicks, cp, bl, st, mp, v2>>

\* Cancel: setEditingPersona(false); setPersonaText(lead.persona)
CancelPersona ==
  /\ LPRendered /\ lp.editingPersona
  /\ lp' = [lp EXCEPT !.editingPersona = FALSE, !.personaText = lp.lead.persona]
  /\ ev' = Input
  /\ UNCHANGED <<rest, tasks, clicks, cp, bl, st, mp, v2>>

HandleSavePersona ==
  /\ LPRendered /\ lp.editingPersona
  /\ Click("handleSavePersona",
           Req("PATCH", "/leads/:id",
               [NoBody EXCEPT !.keys = {"persona", "persona_status"},
                              !.text = lp.personaText]))
  /\ UNCHANGED <<rest, cp, lp, bl, st, mp, v2>>

\* toast, setEditingPersona(false), then the onUpdate prop
HandleSavePersonaOk(t) ==
  /\ t.fn = "handleSavePersona"
  /\ lp' = [lp EXCEPT !.editingPersona = FALSE]
  /\ tasks' = Drop(tasks, t)
  /\ ev' = Event("ok", t.fn, t.req, "Persona updated!", <<>>)
  /\ UNCHANGED <<rest, clicks, cp, bl, st, mp, v2>>

\* A catch block that also closes the editor.
HandleSavePersonaFailClosing(t) ==
  /\ t.fn = "handleSavePersona"
  /\ CatchToast(t, "Failed to save persona")
  /\ lp' = [lp EXCEPT !.editingPersona = FALSE, !.personaText = lp.lead.persona]
  /\ UNCHANGED <<rest, clicks, cp, bl, st, mp, v2>>

HandleSavePersonaFail(t) ==
  /\ t.fn = "handleSavePersona"
  /\ CatchToast(t, "Failed to save persona")
  /\ UNCHANGED <<frame, mounted, clicks, cbVars>>

\* handleRegeneratePersona; the button is disabled while regenerating
HandleRegeneratePersona ==
  /\ LPRendered /\ ~lp.editingPersona /\ ~lp.regenerating
  /\ IF lp.lead.name = "" \/ ~lp.lead.linkedin_url
       THEN /\ ev' = Event("user", "handleRegeneratePersona", NoReq,
                           "Name and LinkedIn URL required for persona generation", <<>>)
            /\ UNCHANGED <<tasks, clicks, lp>>
       ELSE /\ Click("handleRegeneratePersona",
                     Req("POST", "/leads/:id/regenerate-persona", NoBody))
            /\ lp' = [lp EXCEPT !.regenerating = TRUE]
  /\ UNCHANGED <<rest, cp, bl, st, mp, v2>>

HandleRegeneratePersonaAnswered(t) ==
  \/ /\ t.fn = "handleRegeneratePersona"
     /\ lp' = [lp EXCEPT !.regenerating = FALSE]
     /\ tasks' = Drop(tasks, t)
     /\ ev' = Event("ok", t.fn, t.req, "Persona regeneration started!", <<>>)
     /\ UNCHANGED <<rest, clicks, cp, bl, st, mp, v2>>
  \* catch
  \/ /\ t.fn = "handleRegeneratePersona"
     /\ CatchToast(t, "Failed to regenerate")
     /\ lp' = [lp EXCEPT !.regenerating = FALSE]
     /\ UNCHANGED <<rest, clicks, cp, bl, st, mp, v2>>

NextLeadPersonaPanel ==
  \/ EditPersona \/ CancelPersona
  \/ \E text \in {"p0", "p1"} : TypePersona(text)
  \/ HandleSavePersona \/ HandleRegeneratePersona
  \/ \E t \in BagToSet(tasks) :
       \/ HandleSavePersonaOk(t) \/ HandleSavePersonaFail(t)
       \/ HandleRegeneratePersonaAnswered(t)

\* ------------------------------------------------------ BulkLeadEnrichment
\* The leads prop, and the text typed into the textarea as its lines, each
\* line as its '|'-separated trimmed parts.  Among these names one includes
\* another exactly when they are equal.
LeadName(id) == IF id = 1 THEN "Ann" ELSE "Bob"

Matches(name) == {id \in Leads : LeadName(id) = name}

\* the updates array: one entry per line of three parts or more whose name
\* matches a lead (leads.find takes the first)
RECURSIVE Updates(_)
Updates(lines) ==
  IF lines = <<>> THEN <<>>
  ELSE LET parts == Head(lines)
           found == Len(parts) >= 3 /\ Matches(parts[1]) # {}
           lead == CHOOSE id \in Matches(parts[1]) :
                     \A j \in Matches(parts[1]) : id <= j
       IN (IF found THEN <<lead>> ELSE <<>>) \o Updates(Tail(lines))

EnrichReq(id) ==
  Req("PATCH", "/leads/:id",
      [NoBody EXCEPT !.keys = {"company", "title", "persona_status"},
                     !.lead_ids = {id}])

BLRendered == screen = "BulkLeadEnrichment" /\ bl.open

SetEnrichmentData(text) ==
  /\ BLRendered
  /\ bl' = [bl EXCEPT !.enrichmentData = text]
  /\ ev' = Input
  /\ UNCHANGED <<rest, tasks, clicks, cp, lp, st, mp, v2>>

\* handleEnrich up to its first await; with nothing to update it runs to its
\* end at once: the toast, onComplete, onClose.
HandleEnrich ==
  /\ BLRendered /\ ~bl.processing /\ bl.enrichmentData # <<>>
  /\ LET updates == Updates(bl.enrichmentData)
     IN IF updates = <<>>
          THEN /\ ev' = Event("user", "handleEnrich", NoReq,
                              "Updated leads! Auto-research starting...", <<>>)
               /\ bl' = [bl EXCEPT !.open = FALSE]
               /\ UNCHANGED <<tasks, clicks>>
          ELSE /\ CanClick(1)
               /\ clicks' = clicks + 1
               /\ tasks' = Spawn(tasks,
                     [Task("handleEnrich", "await", EnrichReq(Head(updates)), "user")
                        EXCEPT !.q = Tail(updates)])
               /\ ev' = Event("user", "handleEnrich", NoReq, "none",
                              <<EnrichReq(Head(updates))>>)
               /\ bl' = [bl EXCEPT !.processing = TRUE]
  /\ UNCHANGED <<rest, cp, lp, st, mp, v2>>

\* one PATCH answered: the next one, or the end of the loop
HandleEnrichAnswered(t) ==
  \/ /\ t.fn = "handleEnrich"
     /\ IF t.q # <<>>
          THEN /\ tasks' = Swap(tasks, t, [t EXCEPT !.req = EnrichReq(Head(t.q)),
                                                    !.q = Tail(t.q)])
               /\ ev' = Event("ok", t.fn, t.req, "none", <<EnrichReq(Head(t.q))>>)
               /\ UNCHANGED bl
          ELSE /\ tasks' = Drop(tasks, t)
               /\ ev' = Event("ok", t.fn, t.req, "Updated leads! Auto-research starting...", <<>>)
               /\ bl' = [bl EXCEPT !.processing = FALSE, !.open = FALSE]
     /\ UNCHANGED <<rest, clicks, cp, lp, st, mp, v2>>
  \* catch
  \/ /\ t.fn = "handleEnrich"
     /\ CatchToast(t, "Enrichment failed")
     /\ bl' = [bl EXCEPT !.processing = FALSE]
     /\ UNCHANGED <<rest, clicks, cp, lp, st, mp, v2>>

NextBulkLeadEnrichment ==
  \/ \E text \in {<<>>, <<<<"Ann", "Acme", "CTO">>>>, <<<<"Zed", "Acme", "CTO">>>>,
                   <<<<"Bob", "Acme">>>>,
                   <<<<"Bob", "Init", "CEO">>, <<"Ann", "Acme", "CTO">>>>} :
       SetEnrichmentData(text)
  \/ HandleEnrich
  \/ \E t \in BagToSet(tasks) : HandleEnrichAnswered(t)

\* ----------------------------------------------------------- AIAgentStudio
GetUsage == Req("GET", "/ai-agent/usage?days=30", NoBody)
\* useEffect(() => { fetchConfig(); fetchUsage(); }, [])
StudioMount ==
  /\ screen = "AIAgentStudio" /\ ~mounted
  /\ mounted' = TRUE
  /\ tasks' = Spawn(Spawn(tasks, Task("fetchConfig", "await",
                                      Req("GET", "/ai-agent/config", NoBody), "mount")),
                    Task("fetchUsage", "await", GetUsage, "mount"))
  /\ ev' = Event("mount", "useEffect", NoReq, "none",
                 <<Req("GET", "/ai-agent/config", NoBody), GetUsage>>)
  /\ UNCHANGED <<frame, clicks, be, cbVars>>

FetchConfigAnswered(t) ==
  \/ /\ t.fn = "fetchConfig"
     /\ st' = [st EXCEPT !.config = [loaded |-> TRUE, model_name |-> "gpt-5"],
                         !.loading = FALSE]
     /\ tasks' = Drop(tasks, t)
     /\ ev' = Event("ok", t.fn, t.req, "none", <<>>)
     /\ UNCHANGED <<rest, clicks, cp, lp, bl, mp, v2>>
  \* catch
  \/ /\ t.fn = "fetchConfig"
     /\ CatchToast(t, "Failed to load AI config")
     /\ st' = [st EXCEPT !.loading = FALSE]
     /\ UNCHANGED <<rest, clicks, cp, lp, bl, mp, v2>>

FetchUsageAnswered(t) ==
  \/ /\ t.fn = "fetchUsage"
     /\ st' = [st EXCEPT !.usage = TRUE]
     /\ tasks' = Drop(tasks, t)
     /\ ev' = Event("ok", t.fn, t.req, "none", <<>>)
     /\ UNCHANGED <<rest, clicks, cp, lp, bl, mp, v2>>
  \* the catch only logs to the console
  \/ /\ t.fn = "fetchUsage"
     /\ CatchToast(t, "none")
     /\ UNCHANGED <<frame, mounted, clicks, cbVars>>

\* the page renders once loading is over, with config?.x || default in its inputs
StudioRendered == screen = "AIAgentStudio" /\ mounted /\ ~st.loading

ToggleStudioEditing ==
  /\ StudioRendered
  /\ st' = [st EXCEPT !.editing = ~st.editing]
  /\ ev' = Input
  /\ UNCHANGED <<rest, tasks, clicks, cp, lp, bl, mp, v2>>

\* the inputs are enabled while editing: setConfig({...config, model_name})
SetModelName(value) ==
  /\ StudioRendered /\ st.editing
  /\ st' = [st EXCEPT !.config = [loaded |-> TRUE, model_name |-> value]]
  /\ ev' = Input
  /\ UNCHANGED <<rest, tasks, clicks, cp, lp, bl, mp, v2>>

saveConfig ==
  /\ StudioRendered /\ st.editing
  /\ Click("saveConfig",
           Req("POST", "/ai-agent/config",
               [NoBody EXCEPT !.keys = {"config"}, !.text = st.config.model_name]))
  /\ UNCHANGED <<rest, cp, lp, bl, st, mp, v2>>

\* toast, setEditing(false), fetchUsage()
saveConfigAnswered(t) ==
  \/ /\ t.fn = "saveConfig"
     /\ st' = [st EXCEPT !.editing = FALSE]
     /\ tasks' = Swap(tasks, t, Task("fetchUsage", "await", GetUsage, "saveConfig"))
     /\ ev' = Event("ok", t.fn, t.req, "AI Agent configuration saved!", <<GetUsage>>)
     /\ UNCHANGED <<rest, clicks, cp, lp, bl, mp, v2>>
  \* catch
  \/ /\ t.fn = "saveConfig"
     /\ CatchToast(t, "Failed to save configuration")
     /\ UNCHANGED <<frame, mounted, clicks, cbVars>>

NextAIAgentStudio ==
  \/ StudioMount \/ ToggleStudioEditing \/ saveConfig
  \/ \E value \in {"gpt-5", "claude"} : SetModelName(value)
  \/ \E t \in BagToSet(tasks) :
       \/ FetchConfigAnswered(t)
       \/ FetchUsageAnswered(t)
       \/ saveConfigAnswered(t)

\* ------------------------------------------------------------ MessagesPage
Inbox == {[id |-> 1, direction |-> "incoming"], [id |-> 2, direction |-> "outgoing"]}
\* String.prototype.trim on the reply texts above
Trim(text) == IF text = " " THEN "" ELSE text

\* params = filter !== 'all' ? { direction: filter } : {}
GetMessages(filter) ==
  Req("GET", "/messages",
      IF filter # "all" THEN [NoBody EXCEPT !.keys = {"direction"}, !.text = filter]
      ELSE NoBody)

MessagesFor(r) == {m \in Inbox : "direction" \in r.body.keys => m.direction = r.body.text}

\* useEffect(() => { fetchMessages(); }, [filter]) on mount
MPMount ==
  /\ screen = "MessagesPage" /\ ~mounted
  /\ mounted' = TRUE
  /\ tasks' = Spawn(tasks, Task("fetchMessages", "await", GetMessages(mp.filter), "mount"))
  /\ ev' = Event("mount", "useEffect", NoReq, "none", <<GetMessages(mp.filter)>>)
  /\ UNCHANGED <<frame, clicks, be, cbVars>>

MPRendered == screen = "MessagesPage" /\ mounted

\* a filter button: setFilter, and the effect runs again when filter changed
SetFilter(f) ==
  /\ MPRendered /\ f # mp.filter
  /\ CanClick(1)
  /\ clicks' = clicks + 1
  /\ mp' = [mp EXCEPT !.filter = f]
  /\ tasks' = Spawn(tasks, Task("fetchMessages", "await", GetMessages(f), "user"))
  /\ ev' = Event("user", "setFilter", NoReq, "none", <<GetMessages(f)>>)
  /\ UNCHANGED <<rest, cp, lp, bl, st, v2>>

\* A fetchMessages that applies a response only when it answers the filter
\* now selected (a stale response is dropped).
FetchMessagesLatestOnly(t) ==
  /\ t.fn = "fetchMessages"
  /\ mp' = IF t.req = GetMessages(mp.filter)
             THEN [mp EXCEPT !.messages = MessagesFor(t.req)] ELSE mp
  /\ tasks' = Drop(tasks, t)
  /\ ev' = Event("ok", t.fn, t.req, "none", <<>>)
  /\ UNCHANGED <<rest, clicks, cp, lp, bl, st, v2>>

\* fetchMessages after its await: setMessages(response.data), whatever the
\* filter is by now
FetchMessagesAnswered(t) ==
  \/ /\ t.fn = "fetchMessages"
     /\ mp' = [mp EXCEPT !.messages = MessagesFor(t.req)]
     /\ tasks' = Drop(tasks, t)
     /\ ev' = Event("ok", t.fn, t.req, "none", <<>>)
     /\ UNCHANGED <<rest, clicks, cp, lp, bl, st, v2>>
  \* catch
  \/ /\ t.fn = "fetchMessages"
     /\ CatchToast(t, "Failed to load messages")
     /\ UNCHANGED <<frame, mounted, clicks, cbVars>>

SetSelectedMessage(m) ==
  /\ MPRendered /\ m \in mp.messages
  /\ mp' = [mp EXCEPT !.selectedMessage = m.id]
  /\ ev' = Input
  /\ UNCHANGED <<rest, tasks, clicks, cp, lp, bl, st, v2>>

\* the reply box is rendered for a selected incoming message
ReplyBox ==
  /\ MPRendered
  /\ \E m \in Inbox : m.id = mp.selectedMessage /\ m.direction = "incoming"

SetReplyText(text) ==
  /\ ReplyBox
  /\ mp' = [mp EXCEPT !.replyText = text]
  /\ ev' = Input
  /\ UNCHANGED <<rest, tasks, clicks, cp, lp, bl, st, v2>>

\* handleSendReply up to its await; the button is disabled while sending
HandleSendReply ==
  /\ ReplyBox /\ ~mp.sending
  /\ IF Trim(mp.replyText) = ""
       THEN /\ ev' = Event("user", "handleSendReply", NoReq, "Reply cannot be empty", <<>>)
            /\ UNCHANGED <<tasks, clicks, mp>>
       ELSE LET post == Req("POST", "/messages/reply",
                            [NoBody EXCEPT !.keys = {"message_id", "content"},
                                           !.lead_ids = {mp.selectedMessage},
                                           !.text = mp.replyText])
            IN /\ CanClick(1)
               /\ clicks' = clicks + 1
               /\ tasks' = Spawn(tasks, [Task("handleSendReply", "await", post, "user")
                                           EXCEPT !.s = mp.filter])
               /\ ev' = Event("user", "handleSendReply", NoReq, "none", <<post>>)
               /\ mp' = [mp EXCEPT !.sending = TRUE]
  /\ UNCHANGED <<rest, cp, lp, bl, st, v2>>

\* toast, setReplyText(''), setSelectedMessage(null), fetchMessages() of the
\* render that handled the click, setSending(false)
HandleSendReplyAnswered(t) ==
  \/ /\ t.fn = "handleSendReply"
     /\ mp' = [mp EXCEPT !.replyText = "", !.selectedMessage = 0, !.sending = FALSE]
     /\ tasks' = Swap(tasks, t, Task("fetchMessages", "await", GetMessages(t.s),
                                     "handleSendReply"))
     /\ ev' = Event("ok", t.fn, t.req, "Reply sent!", <<GetMessages(t.s)>>)
     /\ UNCHANGED <<rest, clicks, cp, lp, bl, st, v2>>
  \* catch
  \/ /\ t.fn = "handleSendReply"
     /\ CatchToast(t, "Failed to send reply")
     /\ mp' = [mp EXCEPT !.sending = FALSE]
     /\ UNCHANGED <<rest, clicks, cp, lp, bl, st, v2>>

NextMessagesPage ==
  \/ MPMount \/ HandleSendReply
  \/ \E f \in {"all", "incoming", "outgoing"} : SetFilter(f)
  \/ \E m \in Inbox : SetSelectedMessage(m)
  \/ \E text \in {"", " ", "hi"} : SetReplyText(text)
  \/ \E t \in BagToSet(tasks) :
       \/ FetchMessagesAnswered(t)
       \/ HandleSendReplyAnswered(t)

\* ------------------------------------------------------- CampaignBuilderV2
GetCampaignV2 == Req("GET", "/api/v2/campaigns/:id", NoBody)
GetMessagesV2 == Req("GET", "/api/v2/campaigns/:id/messages", NoBody)
ApproveTestReq == Req("POST", "/api/v2/campaigns/:id/approve-test", NoBody)
GenerateBulkReq ==
  Req("POST", "/api/v2/campaigns/generate-bulk-messages",
      [NoBody EXCEPT !.keys = {"campaign_id"}])
ActivateV2Req == Req("POST", "/api/v2/campaigns/:id/activate", NoBody)
GenerateTestReq ==
  Req("POST", "/api/v2/campaigns/generate-test-messages",
      [NoBody EXCEPT !.keys = {"campaign_id"}])

\* What the v2 backend does with a request once it answers it.
ApplyV2(b, r) ==
  IF r = GenerateTestReq
    THEN [b EXCEPT !.status = "test_phase", !.messages = TestMessages]
  ELSE IF r = ApproveTestReq THEN [b EXCEPT !.test_approved = TRUE]
  ELSE IF r = GenerateBulkReq THEN [b EXCEPT !.status = "approved"]
  ELSE IF r = ActivateV2Req THEN [b EXCEPT !.status = "active"]
  ELSE IF r.url = "/api/v2/campaigns/messages/:id"
    THEN [b EXCEPT !.messages.content = r.body.text]
  ELSE IF r.url = "/api/v2/campaigns/:id" /\ r.m = "PATCH"
    THEN [b EXCEPT !.start_date = r.body.text]
  ELSE b

CampaignDataV2(b) ==
  [loaded |-> TRUE, status |-> b.status, test_approved |-> b.test_approved,
   start_date |-> b.start_date, selected_lead_ids |-> b.selected_lead_ids]

\* useEffect: fetchCampaign(); fetchLeads()
V2Mount ==
  /\ screen = "CampaignBuilderV2" /\ ~mounted
  /\ mounted' = TRUE
  /\ tasks' = Spawn(Spawn(tasks, Task("fetchCampaignV2", "await", GetCampaignV2, "mount")),
                    Task("fetchLeadsV2", "await", Req("GET", "/api/leads", NoBody), "mount"))
  /\ ev' = Event("mount", "useEffect", NoReq, "none",
                 <<GetCampaignV2, Req("GET", "/api/leads", NoBody)>>)
  /\ UNCHANGED <<frame, clicks, be, cbVars>>

\* setCampaign; fetchMessages() from the test phase on; setLoading(false)
V2FetchCampaignAnswered(t) ==
  \/ /\ t.fn = "fetchCampaignV2"
     /\ v2' = [v2 EXCEPT !.campaign = CampaignDataV2(be), !.loading = FALSE]
     /\ IF be.status \in {"test_phase", "approved", "active"}
          THEN /\ tasks' = Swap(tasks, t, Task("fetchMessagesV2", "await", GetMessagesV2, t.root))
               /\ ev' = Event("ok", t.fn, t.req, "none", <<GetMessagesV2>>)
          ELSE /\ tasks' = Drop(tasks, t)
               /\ ev' = Event("ok", t.fn, t.req, "none", <<>>)
     /\ UNCHANGED <<rest, clicks, cp, lp, bl, st, mp>>
  \* catch
  \/ /\ t.fn = "fetchCampaignV2"
     /\ CatchToast(t, "Failed to load campaign")
     /\ v2' = [v2 EXCEPT !.loading = FALSE]
     /\ UNCHANGED <<rest, clicks, cp, lp, bl, st, mp>>

V2FetchLeadsAnswered(t) ==
  \/ /\ t.fn = "fetchLeadsV2"
     /\ tasks' = Drop(tasks, t)
     /\ ev' = Event("ok", t.fn, t.req, "none", <<>>)
     /\ UNCHANGED <<frame, mounted, clicks, be, cbVars>>
  \* the catch only logs to the console
  \/ /\ t.fn = "fetchLeadsV2"
     /\ CatchToast(t, "none")
     /\ UNCHANGED <<frame, mounted, clicks, cbVars>>

V2FetchMessagesAnswered(t) ==
  \/ /\ t.fn = "fetchMessagesV2"
     /\ v2' = [v2 EXCEPT !.messages = be.messages]
     /\ tasks' = Drop(tasks, t)
     /\ ev' = Event("ok", t.fn, t.req, "none", <<>>)
     /\ UNCHANGED <<rest, clicks, cp, lp, bl, st, mp>>
  \* the catch only logs to the console
  \/ /\ t.fn = "fetchMessagesV2"
     /\ CatchToast(t, "none")
     /\ UNCHANGED <<frame, mounted, clicks, cbVars>>

V2Rendered ==
  screen = "CampaignBuilderV2" /\ mounted /\ ~v2.loading /\ v2.campaign.loaded

\* a handler of a tab that is no longer mounted sets no state
V2Unmounted(t) ==
  IF t.fn \in {"generateTestMessages", "approveTestPhase", "generateBulkMessages",
               "updateMessage",
               "handleSave", "handleActivate"}
    THEN [t EXCEPT !.live = FALSE] ELSE t

\* A tab button; the review button is disabled while there are no messages.
\* The tab mounts with its useState initial values.
V2SetActiveTab(tab) ==
  /\ V2Rendered /\ tab # v2.activeTab
  /\ tab = "review" => v2.messages.some
  /\ v2' = [v2 EXCEPT !.activeTab = tab, !.generating = FALSE,
                      !.editingMessage = NoMessages,
                      !.start_date = v2.campaign.start_date]
  /\ tasks' = BagOfAll(V2Unmounted, tasks)
  /\ ev' = Input
  /\ UNCHANGED <<rest, clicks, cp, lp, bl, st, mp>>

\* A step that changes the backend leaves these alone.
shell == <<screen, route, auth, mounted, cbVars, cp, lp, bl, st, mp>>

\* A tab handler that awaits one request: on success the backend applies it,
\* the toast shows and the onUpdate prop runs; local state is set by the caller.
V2Ok(t, toast, onUpdate) ==
  /\ be' = ApplyV2(be, t.req)
  /\ tasks' = Swap(tasks, t, Task(onUpdate.fn, "await", onUpdate.req, t.fn))
  /\ ev' = Event("ok", t.fn, t.req, toast, <<onUpdate.req>>)
  /\ UNCHANGED <<shell, clicks>>

\* the onUpdate prop the parent passes: fetchMessages to the review tab,
\* fetchCampaign to the others
fetchMessagesProp == [fn |-> "fetchMessagesV2", req |-> GetMessagesV2]
fetchCampaignProp == [fn |-> "fetchCampaignV2", req |-> GetCampaignV2]

\* ReviewMessagesTab is rendered: as the review tab of the builder, or on its
\* own with the props the builder passes
ReviewTab ==
  \/ V2Rendered /\ v2.activeTab = "review"
  \/ screen = "ReviewMessagesTab" /\ mounted

\* "Edit" on a message: setEditingMessage(msg)
SetEditingMessage ==
  /\ ReviewTab /\ v2.messages.some /\ ~v2.editingMessage.some
  /\ v2' = [v2 EXCEPT !.editingMessage = v2.messages]
  /\ ev' = Input
  /\ UNCHANGED <<rest, tasks, clicks, cp, lp, bl, st, mp>>

SetMessageContent(content) ==
  /\ ReviewTab /\ v2.editingMessage.some
  /\ v2' = [v2 EXCEPT !.editingMessage.content = content]
  /\ ev' = Input
  /\ UNCHANGED <<rest, tasks, clicks, cp, lp, bl, st, mp>>

CancelEditingMessage ==
  /\ ReviewTab /\ v2.editingMessage.some
  /\ v2' = [v2 EXCEPT !.editingMessage = NoMessages]
  /\ ev' = Input
  /\ UNCHANGED <<rest, tasks, clicks, cp, lp, bl, st, mp>>

UpdateMessage ==
  /\ ReviewTab /\ v2.editingMessage.some
  /\ Click("updateMessage",
           Req("PATCH", "/api/v2/campaigns/messages/:id",
               [NoBody EXCEPT !.keys = {"subject", "content"},
                              !.text = v2.editingMessage.content]))
  /\ UNCHANGED <<rest, pageVars>>

UpdateMessageAnswered(t) ==
  \/ /\ t.fn = "updateMessage"
     /\ V2Ok(t, "Message updated!", fetchMessagesProp)
     /\ v2' = IF t.live THEN [v2 EXCEPT !.editingMessage = NoMessages] ELSE v2
  \* catch
  \/ /\ t.fn = "updateMessage"
     /\ CatchToast(t, "Failed to update")
     /\ UNCHANGED <<frame, mounted, clicks, cbVars>>

\* 'Generate Test (3 Leads)', shown for a draft campaign. Reading .length of
\* an absent selected_lead_ids throws: the async function rejects before its
\* first statement completes, with no toast and nothing to catch it.
GenerateTestMessages ==
  /\ ReviewTab /\ v2.campaign.status = "draft" /\ ~v2.generating
  /\ IF ~v2.campaign.selected_lead_ids.defined
       THEN /\ ev' = Event("user", "generateTestMessages", NoReq, "none", <<>>)
            /\ UNCHANGED <<tasks, clicks, v2>>
     ELSE IF Cardinality(v2.campaign.selected_lead_ids.ids) < 3
       THEN /\ ev' = Event("user", "generateTestMessages", NoReq,
                           "Please select at least 3 leads first", <<>>)
            /\ UNCHANGED <<tasks, clicks, v2>>
     ELSE /\ Click("generateTestMessages", GenerateTestReq)
          /\ v2' = [v2 EXCEPT !.generating = TRUE]
  /\ UNCHANGED <<rest, cp, lp, bl, st, mp>>

GenerateTestMessagesAnswered(t) ==
  \/ /\ t.fn = "generateTestMessages"
     /\ V2Ok(t, "Generated messages for 3 test leads!", fetchMessagesProp)
     /\ v2' = IF t.live THEN [v2 EXCEPT !.generating = FALSE] ELSE v2
  \* catch
  \/ /\ t.fn = "generateTestMessages"
     /\ CatchToast(t, "Failed to generate messages")
     /\ v2' = IF t.live THEN [v2 EXCEPT !.generating = FALSE] ELSE v2
     /\ UNCHANGED <<rest, clicks, cp, lp, bl, st, mp>>

\* the button shows in the test phase until the campaign prop says approved
ApproveTestPhase ==
  /\ ReviewTab /\ v2.campaign.status = "test_phase" /\ ~v2.campaign.test_approved
  /\ Click("approveTestPhase", ApproveTestReq)
  /\ UNCHANGED <<rest, pageVars>>

ApproveTestPhaseAnswered(t) ==
  \/ /\ t.fn = "approveTestPhase"
     /\ V2Ok(t, "Test phase approved! Ready for bulk generation.", fetchMessagesProp)
     /\ UNCHANGED v2
  \* catch
  \/ /\ t.fn = "approveTestPhase"
     /\ CatchToast(t, "Failed to approve")
     /\ UNCHANGED <<frame, mounted, clicks, cbVars>>

GenerateBulkMessages ==
  /\ ReviewTab /\ v2.campaign.test_approved /\ v2.campaign.status # "approved"
  /\ ~v2.generating
  /\ IF ~v2.campaign.test_approved
       THEN /\ ev' = Event("user", "generateBulkMessages", NoReq,
                           "Please approve test phase first", <<>>)
            /\ UNCHANGED <<tasks, clicks, v2>>
       ELSE /\ Click("generateBulkMessages", GenerateBulkReq)
            /\ v2' = [v2 EXCEPT !.generating = TRUE]
  /\ UNCHANGED <<rest, cp, lp, bl, st, mp>>

GenerateBulkMessagesAnswered(t) ==
  \/ /\ t.fn = "generateBulkMessages"
     /\ V2Ok(t, "Generated messages for all leads!", fetchMessagesProp)
     /\ v2' = IF t.live THEN [v2 EXCEPT !.generating = FALSE] ELSE v2
  \* catch
  \/ /\ t.fn = "generateBulkMessages"
     /\ CatchToast(t, "Failed to generate messages")
     /\ v2' = IF t.live THEN [v2 EXCEPT !.generating = FALSE] ELSE v2
     /\ UNCHANGED <<rest, clicks, cp, lp, bl, st, mp>>

ScheduleTab == V2Rendered /\ v2.activeTab = "schedule"

SetStartDate(date) ==
  /\ ScheduleTab
  /\ v2' = [v2 EXCEPT !.start_date = date]
  /\ ev' = Input
  /\ UNCHANGED <<rest, tasks, clicks, cp, lp, bl, st, mp>>

HandleSave ==
  /\ ScheduleTab
  /\ Click("handleSave",
           Req("PATCH", "/api/v2/campaigns/:id",
               [NoBody EXCEPT !.keys = {"schedule"}, !.text = v2.start_date]))
  /\ UNCHANGED <<rest, pageVars>>

HandleSaveAnswered(t) ==
  \/ /\ t.fn = "handleSave"
     /\ V2Ok(t, "Schedule saved!", fetchCampaignProp)
     /\ UNCHANGED v2
  \* catch
  \/ /\ t.fn = "handleSave"
     /\ CatchToast(t, "Failed to save schedule")
     /\ UNCHANGED <<frame, mounted, clicks, cbVars>>

\* An activation that checks the start date only.
HandleActivateAnyPhase ==
  /\ ScheduleTab /\ v2.campaign.status # "active"
  /\ IF v2.start_date = ""
       THEN /\ ev' = Event("user", "handleActivate", NoReq,
                           "Please set a start date", <<>>)
            /\ UNCHANGED <<tasks, clicks>>
       ELSE Click("handleActivate", ActivateV2Req)
  /\ UNCHANGED <<rest, pageVars>>

\* An activation that checks the approval only.
HandleActivateAnyDate ==
  /\ ScheduleTab /\ v2.campaign.status # "active"
  /\ IF ~v2.campaign.test_approved
       THEN /\ ev' = Event("user", "handleActivate", NoReq,
                 "Please approve test phase and generate all messages first", <<>>)
            /\ UNCHANGED <<tasks, clicks>>
       ELSE Click("handleActivate", ActivateV2Req)
  /\ UNCHANGED <<rest, pageVars>>

\* the button is disabled once the campaign is active
HandleActivate ==
  /\ ScheduleTab /\ v2.campaign.status # "active"
  /\ IF ~v2.campaign.test_approved
       THEN /\ ev' = Event("user", "handleActivate", NoReq,
                 "Please approve test phase and generate all messages first", <<>>)
            /\ UNCHANGED <<tasks, clicks>>
     ELSE IF v2.start_date = ""
       THEN /\ ev' = Event("user", "handleActivate", NoReq,
                           "Please set a start date", <<>>)
            /\ UNCHANGED <<tasks, clicks>>
     ELSE Click("handleActivate", ActivateV2Req)
  /\ UNCHANGED <<rest, pageVars>>

HandleActivateAnswered(t) ==
  \/ /\ t.fn = "handleActivate"
     /\ V2Ok(t, "Campaign activated!", fetchCampaignProp)
     /\ UNCHANGED v2
  \* catch
  \/ /\ t.fn = "handleActivate"
     /\ CatchToast(t, "Failed to activate")
     /\ UNCHANGED <<frame, mounted, clicks, cbVars>>

NextCampaignBuilderV2 ==
  \/ V2Mount
  \/ \E tab \in {"overview", "review", "schedule"} : V2SetActiveTab(tab)
  \/ SetEditingMessage \/ CancelEditingMessage \/ UpdateMessage
  \/ \E content \in {"m0", "m1"} : SetMessageContent(content)
  \/ ApproveTestPhase \/ GenerateBulkMessages
  \/ \E date \in {"", "2025-01-01"} : SetStartDate(date)
  \/ HandleSave \/ HandleActivate
  \/ \E t \in BagToSet(tasks) :
       \/ V2FetchCampaignAnswered(t)
       \/ V2FetchLeadsAnswered(t)
       \/ V2FetchMessagesAnswered(t)
       \/ UpdateMessageAnswered(t)
       \/ ApproveTestPhaseAnswered(t)
       \/ GenerateBulkMessagesAnswered(t)
       \/ HandleSaveAnswered(t)
       \/ HandleActivateAnswered(t)

\* --------------------------------------------------------- specifications
\* The builder's loads, common to every scenario of the Campaign Builder.
CBLoad ==
  \/ CBMount
  \/ \E t \in BagToSet(tasks) :
       \/ FetchCampaignAnswered(t)
       \/ InitStepOk(t) \/ InitStepFail(t)
       \/ FetchLeadsAnswered(t)

\* The header buttons and the AI Agent tab the builder opens on.
NextAgent ==
  \/ CBLoad
  \/ ActivateCampaign \/ Pause \/ SelectProfile
  \/ \E t \in BagToSet(tasks) :
       \/ ActivateCampaignAnswered(t)
       \/ PauseAnswered(t)
       \/ SelectProfileAnswered(t)

\* Every page, with the Campaign Builder on the tab it opens on.
Next ==
  \/ NextAgent \/ NextCampaignsPage \/ NextLeadPersonaPanel
  \/ NextBulkLeadEnrichment \/ NextAIAgentStudio \/ NextMessagesPage
  \/ NextCampaignBuilderV2

Spec == Init /\ [][Next]_vars

\* The tab bar and the Product Info tab.
NextProduct ==
  \/ CBLoad
  \/ SetActiveTab("product") \/ SetActiveTab("analytics")
  \/ ToggleEditing
  \/ \E value \in {"Q1", "Q2"} : EditName(value)
  \/ \E file \in {"a.pdf", "a.exe"} : HandleFileUpload(file)
  \/ SaveCampaignEdits
  \/ \E t \in BagToSet(tasks) :
       \/ HandleFileUploadAnswered(t)
       \/ SaveCampaignEditsAnswered(t)

InitEdits == Init /\ screen \in {"CampaignBuilder", "AIAgentStudio"}

SpecEdits == InitEdits /\ [][NextProduct \/ NextAIAgentStudio]_vars

\* The tab bar and the Leads tab.
NextLeads ==
  \/ CBLoad
  \/ SetActiveTab("steps") \/ SetActiveTab("leads")
  \/ \E leadId \in Leads : ToggleLead(leadId)
  \/ \E text \in {"", "1"} : SetLeadLimit(text)
  \/ HandleAssign
  \/ \E t \in BagToSet(tasks) :
       \/ AssignLeadsAnswered(t)

InitLeads == Init /\ screen = "CampaignBuilder"

SpecLeads == InitLeads /\ [][NextLeads]_vars

\* The tab bar and the Message Steps tab.
NextSteps ==
  \/ CBLoad
  \/ SetActiveTab("steps") \/ SetActiveTab("schedule")
  \/ AddStep \/ SaveStep
  \/ \E value \in {"c0", "c1"} : UpdateVariant(value)
  \/ \E t \in BagToSet(tasks) :
       \/ AddStepAnswered(t)

InitSteps == Init /\ screen = "CampaignBuilder"

\* The builder's mount and the requests it leads to, with no user action,
\* against a backend that lists the POSTed steps and against one that does not.
InitLoad == \E lists \in BOOLEAN : InitWith(lists) /\ screen = "CampaignBuilder"

SpecLoad == InitLoad /\ [][CBLoad]_vars

SpecSteps == InitSteps /\ [][NextSteps]_vars

\* ReviewMessagesTab on its own: rendered with the props CampaignBuilderV2
\* passes (campaign, messages, onUpdate = fetchMessages), for a campaign in any
\* phase, with or without selected_lead_ids.
InitReview ==
  /\ screen = "ReviewMessagesTab" /\ mounted = TRUE
  /\ route = [path |-> "", id |-> 0]
  /\ auth = [isAuthenticated |-> "true", session_token |-> TRUE, checking |-> FALSE]
  /\ cp = CampaignsPageInit
  /\ lp = [lead |-> [name |-> "Ann", linkedin_url |-> TRUE, persona |-> "p0"],
           editingPersona |-> FALSE, personaText |-> "p0", regenerating |-> FALSE]
  /\ bl = [enrichmentData |-> <<>>, processing |-> FALSE, open |-> TRUE]
  /\ st = [config |-> [loaded |-> FALSE, model_name |-> ""], usage |-> FALSE,
           loading |-> TRUE, editing |-> FALSE]
  /\ mp = [messages |-> {}, selectedMessage |-> 0, replyText |-> "",
           filter |-> "all", sending |-> FALSE]
  /\ \E status \in {"draft", "test_phase"}, approved \in BOOLEAN,
        messages \in {NoMessages, TestMessages},
        selected \in {[defined |-> FALSE, ids |-> {}]} \cup
                     {[defined |-> TRUE, ids |-> ids] : ids \in {{}, {1, 2}, {1, 2, 3}}} :
       /\ be = [id |-> 1, name |-> "Q1", status |-> status, steps |-> DefaultSteps,
                lead_ids |-> {}, file_urls |-> <<>>, parsed_content |-> "",
                test_approved |-> approved, messages |-> messages,
                start_date |-> "", variant |-> "c0",
                selected_lead_ids |-> selected, lists_steps |-> TRUE]
       /\ v2 = [campaign |-> CampaignDataV2(be), loading |-> FALSE,
                activeTab |-> "review", messages |-> messages,
                generating |-> FALSE, editingMessage |-> NoMessages,
                start_date |-> ""]
  /\ tasks = EmptyBag
  /\ ev = Event("none", "", NoReq, "none", <<>>)
  /\ clicks = 0
  /\ campaign = NoCampaign
  /\ loading = TRUE
  /\ activeTab = "agent"
  /\ leads = {}
  /\ initializingSteps = FALSE
  /\ editingCampaign = FALSE
  /\ campaignEdits = NoEdits
  /\ uploading = FALSE
  /\ selectedLeads = {}
  /\ leadLimit = DefaultLeadLimit

NextReview ==
  \/ GenerateTestMessages \/ ApproveTestPhase \/ GenerateBulkMessages
  \/ SetEditingMessage \/ CancelEditingMessage \/ UpdateMessage
  \/ \E content \in {"m0", "m1"} : SetMessageContent(content)
  \/ \E t \in BagToSet(tasks) :
       \/ GenerateTestMessagesAnswered(t)
       \/ ApproveTestPhaseAnswered(t)
       \/ GenerateBulkMessagesAnswered(t)
       \/ UpdateMessageAnswered(t)
       \/ V2FetchMessagesAnswered(t)

SpecReview == InitReview /\ [][NextReview]_vars

\* ------------------------------------------------------------- properties
\* C1: overlapping fetchCampaign calls on a campaign without steps run
\* initializeDefaultSteps at most once: the backend never receives the same
\* step_number twice.
C1_NoStepPostedTwice ==
  \A i, j \in DOMAIN be.steps : i # j => be.steps[i] # be.steps[j]

\* C2: whenever a network call fails, a toast is shown.
C2_ToastOnFailure == ev.kind = "fail" => ev.toast # "none"

\* The loaded data, the form fields and the open/closed state of editors and
\* forms of every component.
DataState ==
  <<campaign, leads, activeTab, editingCampaign, campaignEdits, selectedLeads,
    leadLimit, cp, lp.lead, lp.editingPersona, lp.personaText,
    bl.enrichmentData, bl.open, st.config, st.usage, st.editing, mp.messages,
    mp.selectedMessage, mp.replyText, mp.filter, v2.campaign, v2.activeTab,
    v2.messages, v2.editingMessage, v2.start_date>>

C4_NoRetry ==
  [][ev'.kind = "fail" =>
       /\ ev'.issued = <<>>
       /\ BagCardinality(tasks') = BagCardinality(tasks) - 1]_vars

C4_Witness ==
  /\ ev.kind = "fail" /\ ev.fn = "initializeDefaultSteps" /\ tasks = EmptyBag

\* C5: handleCreate with a name issues one POST /campaigns carrying it and
\* its success navigates to the created campaign's edit route; with an empty
\* name it issues nothing; its failure leaves the route as it is.
C5_CreateAndNavigate ==
  [][/\ (ev'.kind = "user" /\ ev'.fn = "handleCreate") =>
          /\ route' = route
          /\ IF cp.newCampaign.name = "" THEN ev'.issued = <<>>
             ELSE /\ Len(ev'.issued) = 1
                  /\ ev'.issued[1].m = "POST" /\ ev'.issued[1].url = "/campaigns"
                  /\ ev'.issued[1].body.name = cp.newCampaign.name
     /\ (ev'.kind = "ok" /\ ev'.fn = "handleCreate") =>
          /\ be'.id # be.id /\ be'.name = ev'.req.body.name
          /\ route' = [path |-> "/campaigns/:campaignId/edit", id |-> be'.id]
          /\ screen' = "CampaignBuilder"
     /\ (ev'.kind = "fail" /\ ev'.fn = "handleCreate") =>
          route' = route /\ screen' = screen]_vars

C5_Witness ==
  /\ ev.kind = "ok" /\ ev.fn = "handleCreate"
  /\ route.path = "/campaigns/:campaignId/edit" /\ route.id = 2

PresenceToasts ==
  {"Campaign name is required", "Reply cannot be empty", "Please set a start date",
   "Name and LinkedIn URL required for persona generation"}

C8_LeadLimitSent ==
  (ev.kind = "user" /\ ev.fn = "assignLeads") =>
    /\ ev.issued[1].body.lead_ids = selectedLeads
    /\ "lead_limit" \in ev.issued[1].body.keys
    /\ ev.issued[1].body.lead_limit = leadLimit

\* C9: on every other tab the tab bar lets the user select the AI Agent tab.
C9_AgentTabSelectable ==
  (CBRendered /\ activeTab # "agent") => ENABLED SetActiveTab("agent")

\* C10: a successful upload appends the file name to file_urls and sets
\* parsed_content to the preview, on top of the edits present at that time.
C10_BothUpdatesKept ==
  [][(ev'.kind = "ok" /\ ev'.fn = "handleFileUpload") =>
       campaignEdits' = [campaignEdits EXCEPT
                           !.file_urls = Append(@, "a.pdf"),
                           !.parsed_content = Preview]]_vars

\* C11: a successful product-document upload fills the product form of
\* campaignEdits and turns editing mode on (editingCampaign becomes TRUE).
C11_UploadTurnsEditingOn ==
  [][(ev'.kind = "ok" /\ ev'.fn = "handleFileUpload") => editingCampaign']_vars

\* C12: MessagesPage neither cancels nor deduplicates its fetches: a filter
\* change issues one GET /messages for the new filter and leaves the fetches in
\* flight alone, and every response is applied when it arrives, so the list
\* shown is that of the response that arrived last, whichever filter is selected.
C12_EveryResponseApplied ==
  [][/\ (ev'.kind = "user" /\ ev'.fn = "setFilter") =>
          /\ ev'.issued = <<GetMessages(mp'.filter)>>
          /\ tasks \sqsubseteq tasks'
          /\ BagCardinality(tasks') = BagCardinality(tasks) + 1
     /\ (ev'.kind = "ok" /\ ev'.fn = "fetchMessages") =>
          /\ mp'.messages = MessagesFor(ev'.req)
          /\ mp'.filter = mp.filter
          /\ tasks' \sqsubseteq tasks]_vars

\* the response for 'incoming' arrived after the one for 'outgoing', which is
\* the filter selected: the incoming list is shown
C12_Witness ==
  /\ ev.kind = "ok" /\ ev.fn = "fetchMessages" /\ tasks = EmptyBag
  /\ ev.req = GetMessages("incoming") /\ mp.filter = "outgoing"
  /\ mp.messages = MessagesFor(GetMessages("incoming"))
  /\ mp.messages # MessagesFor(GetMessages(mp.filter))

\* C13: in CampaignBuilderV2, for a draft campaign with no generated
\* messages, the user can open the Review Messages tab (and use 'Generate
\* Test' there): from any other tab the Review Messages button is enabled.
C13_ReviewTabOpensForDraft ==
  (/\ V2Rendered /\ v2.campaign.status = "draft" /\ ~v2.messages.some
   /\ v2.activeTab # "review") => ENABLED V2SetActiveTab("review")

\* C14: once the approve-test POST succeeded and the requests it started are
\* answered, the campaign held by CampaignBuilderV2 has test_approved, with no
\* further user action.
C14_ApprovalReflected ==
  (V2Rendered /\ tasks = EmptyBag /\ be.test_approved) => v2.campaign.test_approved

\* C15: ScheduleTab sends the activate POST only for a campaign whose bulk
\* message generation completed (after which its status is 'approved').
C15_ActivateAfterBulkGeneration ==
  (ev.kind = "user" /\ ev.fn = "handleActivate" /\ ev.issued # <<>>) =>
    be.test_approved /\ be.status = "approved"

\* C16: a generate-bulk-messages POST is issued only when the campaign held
\* locally has test_approved, an activate POST only when it has test_approved
\* and the start date is set; when a guard fails an error toast is shown and
\* no request is sent.
C16_GuardsBeforePosts ==
  /\ (ev.kind = "user" /\ ev.fn = "generateBulkMessages") =>
       IF v2.campaign.test_approved
         THEN ev.issued = <<GenerateBulkReq>>
         ELSE ev.issued = <<>> /\ ev.toast = "Please approve test phase first"
  /\ (ev.kind = "user" /\ ev.fn = "handleActivate") =>
       IF v2.campaign.test_approved /\ v2.start_date # ""
         THEN ev.issued = <<ActivateV2Req>>
         ELSE /\ ev.issued = <<>>
              /\ ev.toast \in {"Please approve test phase and generate all messages first",
                               "Please set a start date"}

\* Activate clicked for an approved campaign with no start date
C16_Witness ==
  /\ ev.kind = "user" /\ ev.fn = "handleActivate" /\ v2.campaign.test_approved
  /\ v2.start_date = "" /\ ev.issued = <<>> /\ ev.toast = "Please set a start date"

\* C17: generateTestMessages issues its POST only for a campaign with at least
\* 3 selected leads; for every campaign with fewer, one without
\* selected_lead_ids included, it shows 'Please select at least 3 leads first',
\* sends no request and leaves generating false.
C17_AtLeastThreeLeads ==
  (ev.kind = "user" /\ ev.fn = "generateTestMessages") =>
    IF /\ v2.campaign.selected_lead_ids.defined
       /\ Cardinality(v2.campaign.selected_lead_ids.ids) >= 3
      THEN ev.issued = <<GenerateTestReq>>
      ELSE /\ ev.issued = <<>>
           /\ ev.toast = "Please select at least 3 leads first"
           /\ ~v2.generating

\* C18: when 'Step saved!' is shown, the backend holds the step's current
\* variant edits, so the next fetchCampaign brings the same text back.
C18_SaveStepSendsEdits ==
  (ev.kind = "user" /\ ev.fn = "saveStep" /\ ev.toast = "Step saved!") =>
    be.variant = campaign.variant

\* C19: the number of lead ids sent when leads are assigned never exceeds the
\* lead limit shown next to the action ('Assign Selected (Max N)').
C19_AssignedWithinLimit ==
  (ev.kind = "user" /\ ev.fn = "assignLeads") =>
    Cardinality(ev.issued[1].body.lead_ids) <= leadLimit

\* C20: default-step initialisation is all-or-nothing: when
\* initializeDefaultSteps ends in its catch block, no default step is stored.
C20_InitAllOrNothing ==
  (ev.kind = "fail" /\ ev.fn = "initializeDefaultSteps") => be.steps = <<>>

\* C21: opening CampaignBuilder on a campaign without message_steps runs one
\* initialization round only: once the three step POSTs of the round have been
\* answered, the response of the re-fetch issues no further request and the
\* backend has received no more than the three POSTs, also when the re-fetched
\* campaign still has no message_steps.
C21_OneInitRound ==
  /\ Len(be.steps) <= Len(DefaultSteps)
  /\ (ev.kind = "ok" /\ ev.fn = "fetchCampaign" /\ Len(be.steps) >= Len(DefaultSteps))
       => ev.issued = <<>>

====
